---- MODULE Spec2Model ----
(***************************************************************************)
(* The Observer pattern of jsDesignPatterns/observer.js: an ObserverList   *)
(* (a JavaScript array behind add/count/get/indexOf/removeAt) owned by a   *)
(* Subject (addObserver/removeObserver/notify).  notify is modelled with   *)
(* its loop position, because the update handlers it calls may re-enter    *)
(* the Subject and change the list while the loop is running.              *)
(***************************************************************************)
EXTENDS Integers, Sequences, FiniteSets, TLC

\* ---------------------------------------------------------------- bounds
\* Longest observer list explored: add is not called on a list this long.
MaxLen == 3

\* Most addObserver calls logged when the order of the entries is followed.
MaxAdds == 4

\* Most getInstance calls followed on each singleton.
MaxCalls == 3

\* Most getCoffeeFlavor calls followed on the CoffeeFlavorFactory.
MaxOrders == 4

\* Most createBook calls followed on the BookFactory.
MaxBooks == 3

\* ---------------------------------------------------------------- values
\* Observer objects, compared by identity (===).
Observers == {"A", "B", "C"}

\* The JavaScript value undefined: the result of a function that returns
\* nothing, and of reading an array position that does not exist.
Undefined == "undefined"

\* Arguments passed to notify (the scenario's 5 and one other value).
Contexts == {5, 6}

\* Index arguments passed to get, removeAt and indexOf: every position of a
\* list, positions past the end (10 among them) and negative numbers.
Indices == ((0 - (MaxLen + 1)) .. (MaxLen + 1)) \cup {10}

\* What an update handler does while it runs: nothing to the Subject (the
\* checkbox handler of the file), addObserver(obj), removeObserver(obj), or
\* it raises an error.
Effects ==
    {[kind |-> k, obj |-> Undefined] : k \in {"none", "throw"}}
    \cup {[kind |-> k, obj |-> o] : k \in {"add", "remove"}, o \in Observers}

\* ------------------------------------------------- JavaScript array model
\* list[index] in JavaScript (0-based): undefined outside the array.
Elem(list, index) ==
    IF index >= 0 /\ index < Len(list) THEN list[index + 1] ELSE Undefined

Min2(a, b) == IF a < b THEN a ELSE b
Max2(a, b) == IF a > b THEN a ELSE b

\* Array.prototype.splice(start, deleteCount) with no inserted items: a
\* negative start counts from the end, start and deleteCount are clamped.
Splice(list, start, deleteCount) ==
    LET len         == Len(list)
        actualStart == IF start < 0 THEN Max2(len + start, 0)
                       ELSE Min2(start, len)
        actualCount == Min2(Max2(deleteCount, 0), len - actualStart)
    IN  [j \in 1 .. (len - actualCount) |->
            IF j <= actualStart THEN list[j] ELSE list[j + actualCount]]

\* ------------------------------------------------------------ ObserverList
\* add: push returns the new length.
addList(list, obj) == Append(list, obj)
\* Mutant of addReturn: the length before the push.
addReturnOldLength(list, obj) == Len(list)

addReturn(list, obj) == Len(list) + 1

count(list) == Len(list)

\* Mutant of get: the lower bound test excludes position 0.
getPositiveOnly(list, index) ==
    IF index > 0 /\ index < Len(list) THEN Elem(list, index) ELSE Undefined

get(list, index) ==
    IF index > -1 /\ index < Len(list) THEN Elem(list, index) ELSE Undefined

RECURSIVE indexOfFrom(_, _, _)
indexOfFrom(list, obj, i) ==
    IF i < Len(list)
    THEN IF Elem(list, i) = obj THEN i ELSE indexOfFrom(list, obj, i + 1)
    ELSE -1

\* Mutant of indexOf: the scan ignores startIndex and begins at 0.
indexOfFromZero(list, obj, startIndex) == indexOfFrom(list, obj, 0)

indexOf(list, obj, startIndex) == indexOfFrom(list, obj, startIndex)

\* indexOf called with the argument list args, <<obj>> or <<obj, startIndex>>.
\* A missing startIndex is undefined, so i is undefined; the loop test
\* undefined < length compares NaN and is false, and the loop is skipped.
indexOfArgs(list, args) ==
    IF Len(args) >= 2 THEN indexOf(list, args[1], args[2]) ELSE -1

\* Mutant of removeAt: a valid position is filled with the last element and
\* the array is shortened, instead of shifting the tail down.
removeAtSwapLast(list, index) ==
    IF index >= 0 /\ index < Len(list)
    THEN [j \in 1 .. (Len(list) - 1) |->
            IF j = index + 1 THEN list[Len(list)] ELSE list[j]]
    ELSE list

\* Mutant of removeAt: the position after index is removed.
removeAtNext(list, index) == Splice(list, index + 1, 1)

removeAt(list, index) == Splice(list, index, 1)

\* ----------------------------------------------------------------- Subject
addObserver(list, observer) == addList(list, observer)

\* Mutant of removeObserver: every occurrence of observer is dropped.
removeObserverAll(list, observer) ==
    SelectSeq(list, LAMBDA x : x # observer)

removeObserver(list, observer) == removeAt(list, indexOf(list, observer, 0))

\* ------------------------------------------------------------------- state
VARIABLES
    observerList,   \* Subject.observers.observerList
    pc,             \* "idle", or "notify" while Subject.notify is running
    i,              \* notify's loop variable
    observerCount,  \* notify's observerCount, read once before the loop
    context,        \* notify's argument
    op,             \* the last call made from outside: name and arguments
    old,            \* observerList when that call began
    ret,            \* what that call returned
    calls,          \* update invocations of that call: <<observer, argument>>
    effects,        \* what each of those update handlers did to the Subject
    thrown,         \* that call ended with an exception
    numAdds,        \* add calls made before the first removeAt call
    removed         \* removeAt has been called

observerVars ==
    <<observerList, pc, i, observerCount, context, op, old, ret, calls,
      effects, thrown, numAdds, removed>>

VARIABLES
    added           \* every observer passed to addObserver, in call order

orderVars == <<added>>

VARIABLES
    instance,       \* mySingleton's instance: <<>> while undefined, else <<object>>
    initCalls,      \* how often mySingleton's init() has run
    results,        \* what each mySingleton.getInstance() call returned
    testerInstance, \* SingletonTester's instance: <<>> while undefined
    testerMade,     \* how often new Singleton(options) has run
    testerCalls     \* each SingletonTester.getInstance call: arguments, result

singletonVars ==
    <<instance, initCalls, results, testerInstance, testerMade, testerCalls>>

VARIABLES
    vehicleClass,   \* each factory instance's own vehicleClass property
    created         \* the last createVehicle call: <<>> before the first

factoryVars == <<vehicleClass, created>>

VARIABLES
    types,          \* abstractVehicleFactory's types: its own properties
    asked,          \* per type, the class last passed to registerVehicle
    passed,         \* per type, the last class passed that met the contract
    vehicleCall     \* the last call on abstractVehicleFactory: <<>> before it

abstractVars == <<types, asked, passed, vehicleCall>>

VARIABLES
    flavors,        \* CoffeeFlavorFactory's flavors: its own properties
    length,         \* CoffeeFlavorFactory's length
    flavorsMade,    \* how often new CoffeeFlavor(name) has run
    orders,         \* each getCoffeeFlavor call: the name and the result
    existingBooks,  \* BookFactory's existingBooks: its own properties
    booksMade,      \* how often new Book(...) has run
    bookCalls       \* each createBook call: the arguments and the result

flyweightVars ==
    <<flavors, length, flavorsMade, orders, existingBooks, booksMade,
      bookCalls>>

VARIABLES
    lists,          \* every ObserverList made: its observerList array
    subjectCall     \* the last call on one of the two Subjects: <<>> before it

subjectsVars == <<lists, subjectCall>>

\* The state of the later sections of the module.
laterVars == <<abstractVars, flyweightVars, subjectsVars>>

vars == <<observerVars, orderVars, singletonVars, factoryVars, laterVars>>

\* What the calls on the Subject leave alone.
OutsideSubject == <<orderVars, singletonVars, factoryVars, laterVars>>

\* What the calls of the later sections leave alone.
EarlierVars == <<observerVars, orderVars, singletonVars, factoryVars>>

Call(name, obj, index, ctx) ==
    [name |-> name, obj |-> obj, index |-> index, context |-> ctx]

ObserverInit ==
    /\ observerList = <<>>
    /\ pc = "idle"
    /\ i = 0
    /\ observerCount = 0
    /\ context = 0
    /\ op = Call("new", Undefined, 0, 0)
    /\ old = <<>>
    /\ ret = Undefined
    /\ calls = <<>>
    /\ effects = <<>>
    /\ thrown = FALSE
    /\ numAdds = 0
    /\ removed = FALSE

OrderInit == added = <<>>

\* jsPatterns/singleton.js: both closures start with instance undefined.
SingletonInit ==
    /\ instance = <<>>
    /\ initCalls = 0
    /\ results = <<>>
    /\ testerInstance = <<>>
    /\ testerMade = 0
    /\ testerCalls = <<>>

\* The factory instances of jsDesignPatterns/factory.js and the constructor
\* each was made with.
Factories ==
    [carFactory |-> "VehicleFactory", otherFactory |-> "VehicleFactory",
     truckFactory |-> "TruckFactory"]

\* A new factory instance has no vehicleClass property of its own.
FactoryInit ==
    /\ vehicleClass = [f \in DOMAIN Factories |-> "none"]
    /\ created = <<>>

\* The type names passed to registerVehicle and getVehicle.
VehicleTypes == {"car", "truck", "constructor"}

\* abstractVehicleFactory right after its closure has run: types = {}, and
\* registerVehicle has not been called.
AbstractInit ==
    /\ types = <<>>
    /\ asked = [t \in VehicleTypes |-> <<>>]
    /\ passed = [t \in VehicleTypes |-> <<>>]
    /\ vehicleCall = <<>>

\* A new CoffeeFlavorFactory (flavors = {}, length = 0) and BookFactory right
\* after its closure has run (existingBooks = {}).
FlyweightInit ==
    /\ flavors = <<>>
    /\ length = 0
    /\ flavorsMade = 0
    /\ orders = <<>>
    /\ existingBooks = <<>>
    /\ booksMade = 0
    /\ bookCalls = <<>>

\* The two Subject instances, in the order they were constructed.
Subjects == {1, 2}

\* Mutant of SubjectObservers: every Subject gets the same ObserverList.
SubjectObserversShared(k) == 1

\* Subject(): this.observers = new ObserverList(). The k-th Subject built
\* owns the k-th ObserverList built.
SubjectObservers(k) == k

\* ObserverList(): this.observerList = [], once for each Subject.
SubjectsInit ==
    /\ lists = [id \in {SubjectObservers(k) : k \in Subjects} |-> <<>>]
    /\ subjectCall = <<>>

Init ==
    /\ ObserverInit
    /\ OrderInit
    /\ SingletonInit
    /\ FactoryInit
    /\ AbstractInit
    /\ FlyweightInit
    /\ SubjectsInit

\* A call from outside that is not notify: no handler runs, nothing throws.
Plain(name, obj, index) ==
    /\ pc = "idle"
    /\ pc' = "idle"
    /\ op' = Call(name, obj, index, 0)
    /\ old' = observerList
    /\ calls' = <<>>
    /\ effects' = <<>>
    /\ thrown' = FALSE
    /\ UNCHANGED <<i, observerCount, context>>
    /\ UNCHANGED OutsideSubject

CountAdd == IF removed THEN numAdds ELSE numAdds + 1

\* subject.observers.add(obj)
CallAdd(obj) ==
    /\ Len(observerList) < MaxLen
    /\ Plain("add", obj, 0)
    /\ observerList' = addList(observerList, obj)
    /\ ret' = addReturn(observerList, obj)
    /\ numAdds' = CountAdd
    /\ UNCHANGED removed

\* subject.observers.count()
CallCount ==
    /\ Plain("count", Undefined, 0)
    /\ ret' = count(observerList)
    /\ UNCHANGED <<observerList, numAdds, removed>>

\* subject.observers.get(index)
CallGet(index) ==
    /\ Plain("get", Undefined, index)
    /\ ret' = get(observerList, index)
    /\ UNCHANGED <<observerList, numAdds, removed>>

\* subject.observers.indexOf(obj, startIndex)
CallIndexOf(obj, startIndex) ==
    /\ Plain("indexOf", obj, startIndex)
    /\ ret' = indexOf(observerList, obj, startIndex)
    /\ UNCHANGED <<observerList, numAdds, removed>>

\* subject.observers.indexOf(obj), with no startIndex
CallIndexOfNoStart(obj) ==
    /\ Plain("indexOfNoStart", obj, 0)
    /\ ret' = indexOfArgs(observerList, <<obj>>)
    /\ UNCHANGED <<observerList, numAdds, removed>>

\* subject.observers.removeAt(index)
CallRemoveAt(index) ==
    /\ Plain("removeAt", Undefined, index)
    /\ observerList' = removeAt(observerList, index)
    /\ ret' = Undefined
    /\ removed' = TRUE
    /\ UNCHANGED numAdds

\* subject.addObserver(observer)
CallAddObserver(observer) ==
    /\ Len(observerList) < MaxLen
    /\ Plain("addObserver", observer, 0)
    /\ observerList' = addObserver(observerList, observer)
    /\ ret' = Undefined
    /\ numAdds' = CountAdd
    /\ UNCHANGED removed

\* subject.removeObserver(observer)
CallRemoveObserver(observer) ==
    /\ Plain("removeObserver", observer, 0)
    /\ observerList' = removeObserver(observerList, observer)
    /\ ret' = Undefined
    /\ removed' = TRUE
    /\ UNCHANGED numAdds

\* subject.notify(ctx): observerCount is read, the loop starts at 0.
CallNotify(ctx) ==
    /\ pc = "idle"
    /\ pc' = "notify"
    /\ op' = Call("notify", Undefined, 0, ctx)
    /\ old' = observerList
    /\ ret' = Undefined
    /\ calls' = <<>>
    /\ effects' = <<>>
    /\ thrown' = FALSE
    /\ observerCount' = count(observerList)
    /\ i' = 0
    /\ context' = ctx
    /\ UNCHANGED <<observerList, numAdds, removed>>
    /\ UNCHANGED OutsideSubject

\* The list after an update handler with effect e has run.
Update(list, e) ==
    IF e.kind = "add" THEN addObserver(list, e.obj)
    ELSE IF e.kind = "remove" THEN removeObserver(list, e.obj)
    ELSE list

\* Mutant of LoopIndex: the list is walked from its last position down.
LoopIndexDescending == observerCount - 1 - i

\* Position i of the loop: the index read next.
LoopIndex == i

\* observer.update(context) ran with effect e and returned: i++.
HandlerReturned(observer, e) ==
    /\ e.kind = "add" => Len(observerList) < MaxLen
    /\ calls' = Append(calls, <<observer, context>>)
    /\ effects' = Append(effects, e)
    /\ observerList' = Update(observerList, e)
    /\ numAdds' = IF e.kind = "add" THEN CountAdd ELSE numAdds
    /\ removed' = (removed \/ e.kind = "remove")
    /\ i' = i + 1
    /\ UNCHANGED <<pc, observerCount, context, thrown>>

\* Mutant of HandlerThrew: the error is caught and the loop goes on.
HandlerThrewSwallowed(observer, e) == HandlerReturned(observer, e)

\* observer.update(context) raised an error: notify has no try/catch, so the
\* error leaves notify and the loop is abandoned.
HandlerThrew(observer, e) ==
    /\ calls' = Append(calls, <<observer, context>>)
    /\ effects' = Append(effects, e)
    /\ thrown' = TRUE
    /\ pc' = "idle"
    /\ i' = 0
    /\ observerCount' = 0
    /\ context' = 0
    /\ UNCHANGED <<observerList, numAdds, removed>>

\* One round of notify's loop: this.observers.get(i).update(context); i++.
\* get(i) of a position that no longer exists is undefined, and calling
\* update on it throws a TypeError out of notify.
NotifyLoop ==
    /\ pc = "notify"
    /\ i < observerCount
    /\ LET observer == get(observerList, LoopIndex) IN
        IF observer = Undefined
        THEN /\ thrown' = TRUE
             /\ pc' = "idle"
             /\ i' = 0
             /\ observerCount' = 0
             /\ context' = 0
             /\ UNCHANGED <<observerList, calls, effects, numAdds, removed>>
        ELSE \E e \in Effects :
             IF e.kind = "throw"
             THEN HandlerThrew(observer, e)
             ELSE HandlerReturned(observer, e)
    /\ UNCHANGED <<op, old, ret>>
    /\ UNCHANGED OutsideSubject

\* The loop condition fails: notify returns.
NotifyReturn ==
    /\ pc = "notify"
    /\ ~(i < observerCount)
    /\ pc' = "idle"
    /\ i' = 0
    /\ observerCount' = 0
    /\ context' = 0
    /\ UNCHANGED <<observerList, op, old, ret, calls, effects, thrown,
                   numAdds, removed>>
    /\ UNCHANGED OutsideSubject

Next ==
    \/ \E obj \in Observers : CallAdd(obj)
    \/ CallCount
    \/ \E index \in Indices : CallGet(index)
    \/ \E obj \in Observers, startIndex \in Indices : CallIndexOf(obj, startIndex)
    \/ \E obj \in Observers : CallIndexOfNoStart(obj)
    \/ \E index \in Indices : CallRemoveAt(index)
    \/ \E observer \in Observers : CallAddObserver(observer)
    \/ \E observer \in Observers : CallRemoveObserver(observer)
    \/ \E ctx \in Contexts : CallNotify(ctx)
    \/ NotifyLoop
    \/ NotifyReturn

Spec == Init /\ [][Next]_vars

\* ------------------------------------------------ the order of the entries
\* The calls that add and remove entries, with every addObserver logged in
\* added, so that the list can be compared with the order of the adds.
OrderStep(name, obj, index, newList, newAdded) ==
    /\ pc = "idle"
    /\ op' = Call(name, obj, index, 0)
    /\ old' = observerList
    /\ observerList' = newList
    /\ added' = newAdded
    /\ UNCHANGED <<pc, i, observerCount, context, ret, calls, effects, thrown,
                   numAdds, removed>>
    /\ UNCHANGED <<singletonVars, factoryVars, laterVars>>

\* subject.addObserver(observer)
OrderAddObserver(observer) ==
    /\ Len(observerList) < MaxLen
    /\ Len(added) < MaxAdds
    /\ OrderStep("addObserver", observer, 0,
                 addObserver(observerList, observer), Append(added, observer))

\* subject.removeObserver(observer)
OrderRemoveObserver(observer) ==
    OrderStep("removeObserver", observer, 0,
              removeObserver(observerList, observer), added)

\* subject.observers.removeAt(index)
OrderRemoveAt(index) ==
    OrderStep("removeAt", Undefined, index, removeAt(observerList, index), added)

OrderNext ==
    \/ \E observer \in Observers : OrderAddObserver(observer)
    \/ \E observer \in Observers : OrderRemoveObserver(observer)
    \/ \E index \in Indices : OrderRemoveAt(index)

SpecOrder == Init /\ [][OrderNext]_vars

\* ------------------------------------------------- jsPatterns/singleton.js
\* Values Math.random() may return.
RandomNumbers == {0, 1, 2}

\* The object literals that have some of the properties keys, with the
\* values one of the records of full gives them.
Objects(full, keys) ==
    {[k \in D |-> o[k]] : o \in full, D \in SUBSET keys}

\* The object {}.
EmptyObject == [k \in {} |-> 0]

\* options[key] || default: a missing property is undefined, and undefined
\* and the falsy value of the property's type give the default.
OrDefault(options, key, falsy, default) ==
    IF key \in DOMAIN options /\ options[key] # falsy
    THEN options[key] ELSE default

\* init(): the object made by the n-th run, which keeps number r.
init(n, r) == [id |-> n, privateRandomNumber |-> r]

getRandomNumber(object) == object.privateRandomNumber

\* Mutant of NeedsInit: myBadSingleton's getInstance, which always runs init.
NeedsInitAlways(inst) == TRUE

\* !instance
NeedsInit(inst) == inst = <<>>

\* mySingleton.getInstance()
GetInstance ==
    /\ Len(results) < MaxCalls
    /\ \E r \in RandomNumbers :
         LET object == IF NeedsInit(instance)
                       THEN init(initCalls + 1, r) ELSE instance[1]
         IN  /\ instance' = <<object>>
             /\ initCalls' = IF NeedsInit(instance) THEN initCalls + 1
                             ELSE initCalls
             /\ results' = Append(results, object)
    /\ UNCHANGED <<testerInstance, testerMade, testerCalls>>
    /\ UNCHANGED <<observerVars, orderVars, factoryVars, laterVars>>

\* The option objects passed to SingletonTester.getInstance.
TesterOptions == Objects([pointX : {0, 5}, pointY : {0, 7}], {"pointX", "pointY"})

\* The argument lists of SingletonTester.getInstance: none, or options.
TesterArgs == {<<>>} \cup {<<o>> : o \in TesterOptions}

\* new Singleton( options ), the n-th object made.
Singleton(args, n) ==
    LET options == IF Len(args) = 0 THEN EmptyObject ELSE args[1]
    IN  [id |-> n,
         name |-> "SingletonTester",
         pointX |-> OrDefault(options, "pointX", 0, 6),
         pointY |-> OrDefault(options, "pointY", 0, 10)]

\* Mutant of TesterNeedsNew: every call builds a new object.
TesterNeedsNewAlways(inst) == TRUE

\* instance === undefined
TesterNeedsNew(inst) == inst = <<>>

\* SingletonTester.getInstance( options )
TesterGetInstance(args) ==
    /\ Len(testerCalls) < MaxCalls
    /\ LET object == IF TesterNeedsNew(testerInstance)
                      THEN Singleton(args, testerMade + 1)
                      ELSE testerInstance[1]
       IN  /\ testerInstance' = <<object>>
           /\ testerMade' = IF TesterNeedsNew(testerInstance)
                            THEN testerMade + 1 ELSE testerMade
           /\ testerCalls' = Append(testerCalls, [args |-> args, ret |-> object])
    /\ UNCHANGED <<instance, initCalls, results>>
    /\ UNCHANGED <<observerVars, orderVars, factoryVars, laterVars>>

SingletonNext ==
    \/ GetInstance
    \/ \E args \in TesterArgs : TesterGetInstance(args)

SpecSingleton == Init /\ [][SingletonNext]_vars

\* ------------------------------------------- jsDesignPatterns/factory.js
\* The options objects passed to createVehicle.
VehicleOptions ==
    Objects([vehicleType : {"car", "truck", "bike"}, doors : {0, 6},
             state : {"like new"}, color : {"red"}, wheelSize : {"small"}],
            {"vehicleType", "doors", "state", "color", "wheelSize"})

\* new Car(options)
Car(options) ==
    [class |-> "Car",
     doors |-> OrDefault(options, "doors", 0, 4),
     state |-> OrDefault(options, "state", "", "brand new"),
     color |-> OrDefault(options, "color", "", "silver")]

\* new Truck(options)
Truck(options) ==
    [class |-> "Truck",
     state |-> OrDefault(options, "state", "", "used"),
     wheelSize |-> OrDefault(options, "wheelSize", "", "large"),
     color |-> OrDefault(options, "color", "", "blue")]

\* The vehicleClass on the prototype of a factory made with constructor kind:
\* VehicleFactory.prototype.vehicleClass = Car,
\* TruckFactory.prototype.vehicleClass = Truck.
PrototypeClass(kind) == IF kind = "TruckFactory" THEN "Truck" ELSE "Car"

\* this.vehicleClass read on factory f whose own property is own: the own
\* property when there is one, else the prototype's.
Lookup(f, own) == IF own # "none" THEN own ELSE PrototypeClass(Factories[f])

\* Mutant of switchVehicleType: the break after case "car" is missing, and
\* control falls through into case "truck".
switchFallThrough(own, options) ==
    IF "vehicleType" \in DOMAIN options
       /\ options.vehicleType \in {"car", "truck"}
    THEN "Truck" ELSE own

\* switch(options.vehicleType): the factory's own vehicleClass afterwards.
\* The assignment is to this, so it stays on the instance.
switchVehicleType(own, options) ==
    IF "vehicleType" \in DOMAIN options /\ options.vehicleType = "car"
    THEN "Car"
    ELSE IF "vehicleType" \in DOMAIN options /\ options.vehicleType = "truck"
    THEN "Truck"
    ELSE own

\* new this.vehicleClass(options)
NewVehicle(class, options) ==
    IF class = "Car" THEN Car(options) ELSE Truck(options)

\* The class each factory builds when no vehicleType selects one.
Defaults == [g \in DOMAIN Factories |-> Lookup(g, vehicleClass[g])]

\* f.createVehicle(options)
CreateVehicle(f, options) ==
    LET own == switchVehicleType(vehicleClass[f], options)
    IN  /\ vehicleClass' = [vehicleClass EXCEPT ![f] = own]
        /\ created' = <<[factory |-> f,
                         options |-> options,
                         vehicle |-> NewVehicle(Lookup(f, own), options),
                         before  |-> Defaults]>>
        /\ UNCHANGED <<observerVars, orderVars, singletonVars, laterVars>>

FactoryNext ==
    \E f \in DOMAIN Factories, options \in VehicleOptions :
        CreateVehicle(f, options)

SpecFactory == Init /\ [][FactoryNext]_vars

\* ------------------- jsDesignPatterns/factory.js: abstractVehicleFactory
\* The properties an object literal ({}) inherits from Object.prototype,
\* among the names used as keys in this module.
ObjectPrototype == {"constructor"}

\* obj[key] on an object literal with the own properties own: <<value>>, or
\* <<>> for undefined. A key that is no own property is looked up on
\* Object.prototype, where constructor is the function Object.
GetProperty(own, key, object) ==
    IF key \in DOMAIN own THEN <<own[key]>>
    ELSE IF key \in ObjectPrototype THEN <<object>>
    ELSE <<>>

\* obj[key] = value
SetProperty(own, key, value) ==
    [k \in DOMAIN own \cup {key} |-> IF k = key THEN value ELSE own[k]]

\* The classes passed to registerVehicle and the methods on the prototype of
\* each: Car and Truck as the file defines them, with nothing added to
\* either prototype, and classes a caller may write.
VehiclePrototypes ==
    [Car |-> {}, Truck |-> {},
     Bus |-> {"drive", "breakDown"}, Van |-> {"drive", "breakDown", "park"},
     Cart |-> {"drive"}]

\* The customizations passed to getVehicle.
Customizations ==
    Objects([state : {"like new"}, color : {"lime green"},
             wheelSize : {"medium"}],
            {"state", "color", "wheelSize"})

\* new Vehicle(customizations). new Object(customizations) returns the
\* customizations object itself, an instance of Object.
NewInstance(Vehicle, customizations) ==
    IF Vehicle = "Car" THEN Car(customizations)
    ELSE IF Vehicle = "Truck" THEN Truck(customizations)
    ELSE IF Vehicle = "Object"
    THEN [k \in DOMAIN customizations \cup {"class"} |->
             IF k = "class" THEN "Object" ELSE customizations[k]]
    ELSE [class |-> Vehicle]

\* proto.drive && proto.breakDown
FulfilsContract(Vehicle) ==
    /\ "drive" \in VehiclePrototypes[Vehicle]
    /\ "breakDown" \in VehiclePrototypes[Vehicle]

\* getVehicle(type, customizations) on a registry typs: <<vehicle>>, or <<>>
\* for null.
getVehicle(typs, type, customizations) ==
    LET Vehicle == GetProperty(typs, type, "Object")
    IN  IF Vehicle # <<>>
        THEN <<NewInstance(Vehicle[1], customizations)>>
        ELSE <<>>

\* registerVehicle(type, Vehicle) on a registry typs: the registry afterwards.
registerVehicle(typs, type, Vehicle) ==
    IF FulfilsContract(Vehicle) THEN SetProperty(typs, type, Vehicle)
    ELSE typs

\* abstractVehicleFactory.registerVehicle(type, Vehicle)
RegisterVehicle(type, Vehicle) ==
    /\ types' = registerVehicle(types, type, Vehicle)
    /\ asked' = [asked EXCEPT ![type] = <<Vehicle>>]
    /\ passed' = IF {"drive", "breakDown"} \subseteq VehiclePrototypes[Vehicle]
                 THEN [passed EXCEPT ![type] = <<Vehicle>>]
                 ELSE passed
    /\ vehicleCall' = <<[name |-> "registerVehicle",
                         type |-> type,
                         class |-> Vehicle,
                         customizations |-> <<>>,
                         before |-> types,
                         result |-> <<"abstractVehicleFactory">>]>>
    /\ UNCHANGED <<EarlierVars, flyweightVars, subjectsVars>>

\* abstractVehicleFactory.getVehicle(type, customizations)
GetVehicle(type, customizations) ==
    /\ vehicleCall' = <<[name |-> "getVehicle",
                         type |-> type,
                         class |-> "none",
                         customizations |-> customizations,
                         before |-> types,
                         result |-> getVehicle(types, type, customizations)]>>
    /\ UNCHANGED <<types, asked, passed>>
    /\ UNCHANGED <<EarlierVars, flyweightVars, subjectsVars>>

AbstractNext ==
    \/ \E type \in VehicleTypes, Vehicle \in DOMAIN VehiclePrototypes :
           RegisterVehicle(type, Vehicle)
    \/ \E type \in VehicleTypes, customizations \in Customizations :
           GetVehicle(type, customizations)

SpecAbstract == Init /\ [][AbstractNext]_vars

\* ------------------------------------ the Flyweight pattern: coffee orders
\* The flavor names ordered: those of testFlyweight, and a name that every
\* object literal inherits a property for.
FlavorNames == {"Cappuccino", "Frappe", "Xpresso", "constructor"}

\* The flavors testFlyweight orders with takeOrders, in order.
TestFlyweightOrders ==
    <<"Cappuccino", "Cappuccino", "Frappe", "Frappe", "Xpresso", "Frappe",
      "Cappuccino", "Cappuccino", "Frappe", "Xpresso", "Cappuccino",
      "Xpresso", "Frappe", "Cappuccino", "Xpresso">>

\* new CoffeeFlavor(newFlavor): the id-th object the constructor has built.
CoffeeFlavor(newFlavor, id) ==
    [class |-> "CoffeeFlavor", flavor |-> newFlavor, id |-> id]

\* The function Object, which flavors.constructor evaluates to while flavors
\* has no own property of that name.
ObjectFunction == [class |-> "Function", flavor |-> "Object", id |-> 0]

\* new CoffeeFlavorFactory()
NewCoffeeFlavorFactory == [flavors |-> <<>>, length |-> 0, made |-> 0]

\* getCoffeeFlavor(flavorName) on a factory with the given flavors, length
\* and number of CoffeeFlavor objects built so far: the three afterwards,
\* and the flavor returned.
getCoffeeFlavor(factory, flavorName) ==
    LET flavor == GetProperty(factory.flavors, flavorName, ObjectFunction)
        made   == CoffeeFlavor(flavorName, factory.made + 1)
    IN  IF flavor = <<>>
        THEN [flavors |-> SetProperty(factory.flavors, flavorName, made),
              length  |-> factory.length + 1,
              made    |-> factory.made + 1,
              flavor  |-> made]
        ELSE [flavors |-> factory.flavors,
              length  |-> factory.length,
              made    |-> factory.made,
              flavor  |-> flavor[1]]

\* getTotalCoffeeFlavorsMade() on a factory whose length is len.
getTotalCoffeeFlavorsMade(len) == len

\* testFlyweight's takeOrders called with each of names in turn, on factory.
RECURSIVE takeOrders(_, _)
takeOrders(factory, names) ==
    IF names = <<>> THEN factory
    ELSE LET after == getCoffeeFlavor(factory, Head(names))
         IN  takeOrders([flavors |-> after.flavors, length |-> after.length,
                         made |-> after.made],
                        Tail(names))

\* flavorFactory.getCoffeeFlavor(flavorName)
GetCoffeeFlavor(flavorName) ==
    LET after == getCoffeeFlavor([flavors |-> flavors, length |-> length,
                                  made |-> flavorsMade],
                                 flavorName)
    IN  /\ Len(orders) < MaxOrders
        /\ flavors' = after.flavors
        /\ length' = after.length
        /\ flavorsMade' = after.made
        /\ orders' = Append(orders, [name |-> flavorName,
                                     flavor |-> after.flavor])
        /\ UNCHANGED <<existingBooks, booksMade, bookCalls>>
        /\ UNCHANGED <<EarlierVars, abstractVars, subjectsVars>>

CoffeeNext == \E flavorName \in FlavorNames : GetCoffeeFlavor(flavorName)

SpecCoffee == Init /\ [][CoffeeNext]_vars

\* ------------------------------------- the Flyweight pattern: library books
\* The ISBNs of the books added.
ISBNs == {"0262510871", "0201896834", "0131103628"}

\* The arguments of a createBook call.
BookArgs ==
    [title : {"SICP", "TAOCP"}, author : {"Abelson", "Knuth"},
     genre : {"cs"}, pageCount : {657}, publisherID : {1}, ISBN : ISBNs]

\* new Book(title, author, genre, pageCount, publisherID, ISBN), flyweight
\* version: the id-th object the constructor has built.
Book(args, id) ==
    [class |-> "Book", id |-> id,
     title |-> args.title, author |-> args.author, genre |-> args.genre,
     pageCount |-> args.pageCount, publisherID |-> args.publisherID,
     ISBN |-> args.ISBN]

\* Mutant of createBook: the new book is returned but not stored.
createBookNotStored(factory, args) ==
    LET existingBook ==
            GetProperty(factory.existingBooks, args.ISBN, ObjectFunction)
        book == Book(args, factory.made + 1)
    IN  IF existingBook # <<>>
        THEN [existingBooks |-> factory.existingBooks,
              made |-> factory.made,
              book |-> existingBook[1]]
        ELSE [existingBooks |-> factory.existingBooks,
              made |-> factory.made + 1,
              book |-> book]

\* createBook(title, author, genre, pageCount, publisherID, ISBN) on a
\* factory with the given existingBooks and number of Book objects built so
\* far: the two afterwards, and the book returned. A stored value is a Book
\* object, so !!existingBook is false only for undefined.
createBook(factory, args) ==
    LET existingBook ==
            GetProperty(factory.existingBooks, args.ISBN, ObjectFunction)
        book == Book(args, factory.made + 1)
    IN  IF existingBook # <<>>
        THEN [existingBooks |-> factory.existingBooks,
              made |-> factory.made,
              book |-> existingBook[1]]
        ELSE [existingBooks |->
                  SetProperty(factory.existingBooks, args.ISBN, book),
              made |-> factory.made + 1,
              book |-> book]

\* BookFactory.createBook(...)
CreateBook(args) ==
    LET after == createBook([existingBooks |-> existingBooks,
                             made |-> booksMade],
                            args)
    IN  /\ Len(bookCalls) < MaxBooks
        /\ existingBooks' = after.existingBooks
        /\ booksMade' = after.made
        /\ bookCalls' = Append(bookCalls, [args |-> args, book |-> after.book])
        /\ UNCHANGED <<flavors, length, flavorsMade, orders>>
        /\ UNCHANGED <<EarlierVars, abstractVars, subjectsVars>>

BookNext == \E args \in BookArgs : CreateBook(args)

SpecBook == Init /\ [][BookNext]_vars

\* ------------------------------- jsDesignPatterns/observer.js: two Subjects
\* The observers registered with the two Subjects.
SharedObservers == {"A", "B"}

\* this.observers.observerList of Subject k.
ListOf(k) == lists[SubjectObservers(k)]

\* The observer list of every Subject.
AllLists == [k \in Subjects |-> ListOf(k)]

\* The update calls of notify( context ) on list: get(i).update( context )
\* for i from 0 below count(); the file's update handler sets a field of
\* the observer and calls nothing.
notifyCalls(list, ctx) ==
    [k \in 1 .. count(list) |-> <<get(list, k - 1), ctx>>]

\* A call on Subject k that leaves its list as newList and invokes invoked.
SubjectStep(k, name, obj, newList, invoked) ==
    /\ lists' = [lists EXCEPT ![SubjectObservers(k)] = newList]
    /\ subjectCall' = <<[subject |-> k, name |-> name, obj |-> obj,
                         before |-> AllLists, invoked |-> invoked]>>
    /\ UNCHANGED <<EarlierVars, abstractVars, flyweightVars>>

\* Subject k: addObserver( observer )
SubjectAddObserver(k, observer) ==
    /\ Len(ListOf(k)) < MaxLen
    /\ SubjectStep(k, "addObserver", observer,
                   addObserver(ListOf(k), observer), <<>>)

\* Subject k: removeObserver( observer )
SubjectRemoveObserver(k, observer) ==
    SubjectStep(k, "removeObserver", observer,
                removeObserver(ListOf(k), observer), <<>>)

\* Subject k: notify( context )
SubjectNotify(k, ctx) ==
    SubjectStep(k, "notify", Undefined, ListOf(k),
                notifyCalls(ListOf(k), ctx))

SubjectsNext ==
    \E k \in Subjects :
        \/ \E observer \in SharedObservers : SubjectAddObserver(k, observer)
        \/ \E observer \in SharedObservers : SubjectRemoveObserver(k, observer)
        \/ \E ctx \in Contexts : SubjectNotify(k, ctx)

SpecSubjects == Init /\ [][SubjectsNext]_vars

\* ------------------------------------------------------------ properties
\* How often observer o occurs in list.
Occurrences(list, o) == Cardinality({k \in 1 .. Len(list) : list[k] = o})

\* The observers invoked by the last call, in order.
Invoked == [k \in 1 .. Len(calls) |-> calls[k][1]]

\* No update handler of the last call changed the list.
NoHandlerChange == \A k \in 1 .. Len(effects) : effects[k].kind = "none"

\* notify has returned or thrown.
NotifyEnded == pc = "idle" /\ op.name = "notify"

\* C1: removeObserver(o) for an observer o that is not in the list leaves
\* the list as it was (same count, same observer at every position) and
\* does not throw.
C1_RemoveNonMemberUnchanged ==
    (op.name = "removeObserver" /\ Occurrences(old, op.obj) = 0)
        => (observerList = old /\ ~thrown)

\* The handlers of the last notify made exactly one change to the list: one
\* removeObserver of an observer registered when notify began.
OneRemovalInPass ==
    /\ \A k \in 1 .. Len(effects) : effects[k].kind \in {"none", "remove"}
    /\ Cardinality({k \in 1 .. Len(effects) : effects[k].kind = "remove"}) = 1
    /\ \A k \in 1 .. Len(effects) :
          effects[k].kind = "remove" => Occurrences(old, effects[k].obj) > 0

RemovedInPass ==
    {effects[k].obj : k \in {j \in 1 .. Len(effects) : effects[j].kind = "remove"}}

\* C2: when a handler removes an observer while notify is dispatching,
\* notify does not throw and every observer registered when notify began,
\* other than the removed one, is invoked exactly as often as it was
\* registered.
C2_RemovalDuringDispatchSafe ==
    (NotifyEnded /\ OneRemovalInPass)
        => /\ ~thrown
           /\ \A o \in Observers \ RemovedInPass :
                 Occurrences(Invoked, o) = Occurrences(old, o)

\* C3: when no handler changes the list, notify(ctx) does not throw and
\* invokes update(ctx) once for every position the list had when notify was
\* called, in ascending position order, each with the same ctx.
C3_NotifyEachPositionInOrder ==
    (op.name = "notify" /\ NoHandlerChange)
        => /\ ~thrown
           /\ Len(calls) <= Len(old)
           /\ \A k \in 1 .. Len(calls) : calls[k] = <<old[k], op.context>>
           /\ pc = "idle" => Len(calls) = Len(old)

C3_Witness ==
    /\ NotifyEnded
    /\ NoHandlerChange
    /\ old = <<"A", "B", "A">>
    /\ calls = << <<"A", 5>>, <<"B", 5>>, <<"A", 5>> >>

\* C4: an observer added by a handler while notify is dispatching is not
\* invoked in that dispatch pass: every observer the pass invokes was
\* registered when notify began.
C4_AddedNotInvokedInPass ==
    op.name = "notify"
        => \A k \in 1 .. Len(calls) : Occurrences(old, calls[k][1]) > 0

\* The part of C4 the code keeps: in a pass whose handlers only add, the
\* invoked observers are the ones registered when notify began, in order.
AddOnlyPassInvokesOldOnly ==
    (op.name = "notify"
        /\ \A k \in 1 .. Len(effects) : effects[k].kind \in {"none", "add"})
        => /\ ~thrown
           /\ Len(calls) <= Len(old)
           /\ \A k \in 1 .. Len(calls) : calls[k][1] = old[k]

\* C5: removeObserver(o) for an o that occurs several times removes exactly
\* the occurrence at the lowest index: count drops by one, the later
\* occurrences stay and every other entry keeps its relative order.
C5_RemoveObserverFirstOccurrence ==
    (op.name = "removeObserver" /\ Occurrences(old, op.obj) >= 2)
        => \E k \in 1 .. Len(old) :
             /\ old[k] = op.obj
             /\ \A j \in 1 .. (k - 1) : old[j] # op.obj
             /\ Len(observerList) = Len(old) - 1
             /\ \A j \in 1 .. (Len(old) - 1) :
                   observerList[j] = IF j < k THEN old[j] ELSE old[j + 1]
             /\ Occurrences(observerList, op.obj) = Occurrences(old, op.obj) - 1

C5_Witness ==
    /\ op.name = "removeObserver"
    /\ op.obj = "A"
    /\ old = <<"B", "A", "A">>
    /\ observerList = <<"B", "A">>

\* C6: removeAt(index) with an index outside 0..count()-1, past the end or
\* negative, leaves the list as it was.
C6_RemoveAtOutOfRangeUnchanged ==
    (op.name = "removeAt" /\ (op.index < 0 \/ op.index >= Len(old)))
        => observerList = old

\* C7: removeAt(i) with 0 <= i < count() lowers count by exactly one, keeps
\* the positions below i and moves every later element down by one, so that
\* get(i) afterwards is what was at i+1, or absent when i was the last index.
C7_RemoveAtShiftsLeft ==
    (op.name = "removeAt" /\ op.index >= 0 /\ op.index < Len(old))
        => /\ Len(observerList) = Len(old) - 1
           /\ \A j \in 1 .. (Len(old) - 1) :
                 observerList[j] = IF j <= op.index THEN old[j] ELSE old[j + 1]
           /\ get(observerList, op.index) =
                 (IF op.index = Len(old) - 1 THEN Undefined ELSE old[op.index + 2])

C7_Witness ==
    /\ op.name = "removeAt"
    /\ op.index = 1
    /\ old = <<"A", "B", "C">>
    /\ observerList = <<"A", "C">>

\* C8: while nothing has been removed, count() equals the number of add
\* calls made, and the k-th add returns k and puts its observer at index
\* k-1 (duplicates included).
C8_CountEqualsAdds ==
    ~removed
        => /\ Len(observerList) = numAdds
           /\ op.name = "count" => ret = numAdds
           /\ op.name = "add" =>
                 /\ ret = numAdds
                 /\ observerList = Append(old, op.obj)
                 /\ observerList[ret] = op.obj

C8_Witness ==
    /\ ~removed
    /\ op.name = "add"
    /\ numAdds = 3
    /\ ret = 3
    /\ observerList = <<"A", "B", "A">>

\* C9: get(index) returns the observer stored at index when
\* 0 <= index < count(), and undefined, without throwing, for every other
\* index (negative ones and index = count() included).
C9_GetInRangeOrUndefined ==
    op.name = "get"
        => /\ ret = (IF op.index >= 0 /\ op.index < Len(old)
                      THEN old[op.index + 1] ELSE Undefined)
           /\ ~thrown
           /\ observerList = old

C9_Witness ==
    /\ op.name = "get"
    /\ old = <<"A", "B">>
    /\ op.index = 2
    /\ ret = Undefined
    /\ ~thrown

\* The positions at or after startIndex of the last indexOf call that hold
\* its obj (0-based).
Matches == {h \in 0 .. (Len(old) - 1) : h >= op.index /\ old[h + 1] = op.obj}

\* C10: indexOf(obj, startIndex) with startIndex >= 0 returns the smallest
\* index >= startIndex whose entry is obj, and -1 when there is none; with x
\* added twice, indexOf(x, first + 1) is the second position.
C10_IndexOfSmallestFromStart ==
    (op.name = "indexOf" /\ op.index >= 0)
        => /\ Matches = {} => ret = -1
           /\ Matches # {} => (ret \in Matches /\ \A h \in Matches : ret <= h)

C10_Witness ==
    /\ op.name = "indexOf"
    /\ old = <<"A", "B", "A">>
    /\ op.obj = "A"
    /\ op.index = 1
    /\ ret = 2

\* C11: indexOf(obj) called without a startIndex behaves as indexOf(obj, 0):
\* when obj is in the list it returns the first index that holds obj.
C11_IndexOfStartDefaultsToZero ==
    (op.name = "indexOfNoStart" /\ Occurrences(old, op.obj) > 0)
        => /\ ret >= 0
           /\ ret < Len(old)
           /\ old[ret + 1] = op.obj
           /\ \A h \in 0 .. (ret - 1) : old[h + 1] # op.obj

\* C12: when the update handler at position k raises an error during
\* notify, the error leaves notify (the pass ends there, with the error),
\* update has been invoked k+1 times, for positions 0..k in order, and
\* nothing at a later position is invoked in that pass.
C12_HandlerErrorPropagates ==
    op.name = "notify"
        => \A k \in 1 .. Len(effects) :
             effects[k].kind = "throw"
                 => /\ k = Len(effects)
                    /\ Len(calls) = k
                    /\ thrown
                    /\ pc = "idle"
                    /\ (\A j \in 1 .. (k - 1) : effects[j].kind = "none")
                          => \A j \in 1 .. k : calls[j] = <<old[j], op.context>>

C12_Witness ==
    /\ NotifyEnded
    /\ thrown
    /\ old = <<"A", "B", "C">>
    /\ Len(effects) = 2
    /\ effects[1].kind = "none"
    /\ effects[2].kind = "throw"
    /\ calls = << <<"A", 5>>, <<"B", 5>> >>

\* s can be obtained from t by deleting entries of t.
RECURSIVE IsSubsequence(_, _)
IsSubsequence(s, t) ==
    IF s = <<>> THEN TRUE
    ELSE IF t = <<>> THEN FALSE
    ELSE IF Head(s) = Head(t) THEN IsSubsequence(Tail(s), Tail(t))
    ELSE IsSubsequence(s, Tail(t))

\* C13: after any sequence of addObserver, removeObserver and removeAt
\* calls, the entries still in the list stand in the relative order in which
\* they were added: the list is the sequence of all adds with entries
\* deleted, never reordered.
C13_InsertionOrderKept == IsSubsequence(observerList, added)

C13_Witness ==
    /\ op.name = "removeAt"
    /\ op.index = 1
    /\ added = <<"A", "B", "C", "A">>
    /\ old = <<"B", "C", "A">>
    /\ observerList = <<"B", "A">>

\* C16: mySingleton.getInstance() creates the instance on the first call
\* only and returns that same instance on every later call: init() runs at
\* most once, and any two results are the same object, so that their
\* getRandomNumber() values are equal.
C16_SingleInstance ==
    /\ initCalls <= 1
    /\ Len(results) > 0 => initCalls = 1
    /\ \A j, k \in 1 .. Len(results) :
          /\ results[j] = results[k]
          /\ getRandomNumber(results[j]) = getRandomNumber(results[k])
          /\ instance = <<results[k]>>

C16_Witness ==
    /\ Len(results) = 3
    /\ initCalls = 1
    /\ getRandomNumber(results[1]) = 2
    /\ getRandomNumber(results[3]) = 2

\* The options of an argument list.
OptionsOf(args) == IF Len(args) = 0 THEN EmptyObject ELSE args[1]

LastCreate == created[1]

\* The options of the last createVehicle call name the type t.
Asked(t) ==
    /\ "vehicleType" \in DOMAIN LastCreate.options
    /\ LastCreate.options.vehicleType = t

\* The built vehicle's property key is the one the options supply.
Copied(key) ==
    key \in DOMAIN LastCreate.options
        => LastCreate.vehicle[key] = LastCreate.options[key]

\* The built vehicle's property key is default when the options have none.
Defaulted(key, default) ==
    key \notin DOMAIN LastCreate.options => LastCreate.vehicle[key] = default

C19_DefaultIsCar ==
    (created # <<>>
        /\ Factories[LastCreate.factory] = "VehicleFactory"
        /\ ~Asked("car") /\ ~Asked("truck"))
        => LastCreate.vehicle.class = "Car"

\* C20: createVehicle with no vehicleType on a TruckFactory instance returns
\* a Truck, and a createVehicle call on one factory never changes the class
\* another factory builds by default.
C20_TruckFactoryDefault ==
    created # <<>>
        => /\ (Factories[LastCreate.factory] = "TruckFactory"
                  /\ "vehicleType" \notin DOMAIN LastCreate.options)
                 => LastCreate.vehicle.class = "Truck"
           /\ \A g \in DOMAIN Factories \ {LastCreate.factory} :
                 Defaults[g] = LastCreate.before[g]

\* The part of C20 the code keeps: a createVehicle call changes no other
\* factory's default class, and a TruckFactory that was never asked for a
\* car builds a Truck when no vehicleType is given.
OtherFactoriesUntouched ==
    created # <<>>
        => /\ \A g \in DOMAIN Factories \ {LastCreate.factory} :
                 Defaults[g] = LastCreate.before[g]
           /\ (Factories[LastCreate.factory] = "TruckFactory"
                  /\ LastCreate.before[LastCreate.factory] = "Truck"
                  /\ "vehicleType" \notin DOMAIN LastCreate.options)
                 => LastCreate.vehicle.class = "Truck"

\* The last call on abstractVehicleFactory.
LastVehicleCall == vehicleCall[1]

\* C21: after registerVehicle("car", Car) and registerVehicle("truck", Truck)
\* with the file's Car and Truck, getVehicle("car", c) returns a new Car and
\* getVehicle("truck", c) a new Truck, never null.
C21_FileClassesCreated ==
    (vehicleCall # <<>>
        /\ LastVehicleCall.name = "getVehicle"
        /\ asked["car"] = <<"Car">>
        /\ asked["truck"] = <<"Truck">>)
        => /\ LastVehicleCall.type = "car"
                 => /\ LastVehicleCall.result # <<>>
                    /\ LastVehicleCall.result[1].class = "Car"
           /\ LastVehicleCall.type = "truck"
                 => /\ LastVehicleCall.result # <<>>
                    /\ LastVehicleCall.result[1].class = "Truck"

\* What getVehicle does with the file's classes: Car and Truck define
\* neither drive nor breakDown, so a type that only they were registered
\* under yields null.
FileClassesYieldNull ==
    (vehicleCall # <<>>
        /\ LastVehicleCall.name = "getVehicle"
        /\ LastVehicleCall.type \notin ObjectPrototype
        /\ passed[LastVehicleCall.type] = <<>>)
        => LastVehicleCall.result = <<>>

\* C23: registerVehicle(type, V) stores V under type only when V.prototype
\* has both drive and breakDown, otherwise leaves the registry unchanged,
\* and always returns the factory; getVehicle(type, c) returns a new
\* instance of the class registered under type, and null for a type that
\* was never successfully registered.
C23_RegisterAndGet ==
    vehicleCall # <<>>
        => /\ LastVehicleCall.name = "registerVehicle"
                 => /\ types =
                          IF {"drive", "breakDown"}
                                \subseteq VehiclePrototypes[LastVehicleCall.class]
                          THEN SetProperty(LastVehicleCall.before,
                                           LastVehicleCall.type,
                                           LastVehicleCall.class)
                          ELSE LastVehicleCall.before
                    /\ LastVehicleCall.result = <<"abstractVehicleFactory">>
           /\ LastVehicleCall.name = "getVehicle"
                 => /\ types = LastVehicleCall.before
                    /\ LastVehicleCall.result =
                          IF passed[LastVehicleCall.type] # <<>>
                          THEN <<NewInstance(passed[LastVehicleCall.type][1],
                                             LastVehicleCall.customizations)>>
                          ELSE <<>>

\* The part of C23 the code keeps: the same statement for the types that
\* are not the name of a property every object inherits.
OwnTypesRegisterAndGet ==
    (vehicleCall # <<>> /\ LastVehicleCall.type \notin ObjectPrototype)
        => C23_RegisterAndGet

\* A Bus returned for a type registered with Bus after a class that did not
\* meet the contract was turned down for it.
OwnTypesWitness ==
    /\ vehicleCall # <<>>
    /\ LastVehicleCall.name = "getVehicle"
    /\ LastVehicleCall.type = "car"
    /\ asked["car"] = <<"Cart">>
    /\ passed["car"] = <<"Bus">>
    /\ LastVehicleCall.result = <<[class |-> "Bus"]>>

\* The distinct names requested from the CoffeeFlavorFactory so far.
NamesOrdered == {orders[k].name : k \in 1 .. Len(orders)}

\* C22: getCoffeeFlavor(name) returns the flavor object already created
\* when name was requested before and creates and stores a new one
\* otherwise, so there is exactly one object per distinct name and
\* getTotalCoffeeFlavorsMade() is the number of distinct names requested.
C22_OneFlavorPerName ==
    /\ \A j, k \in 1 .. Len(orders) :
           (orders[j].name = orders[k].name)
               <=> (orders[j].flavor = orders[k].flavor)
    /\ \A k \in 1 .. Len(orders) :
           /\ orders[k].flavor.class = "CoffeeFlavor"
           /\ orders[k].flavor.flavor = orders[k].name
    /\ flavorsMade = Cardinality(NamesOrdered)
    /\ getTotalCoffeeFlavorsMade(length) = Cardinality(NamesOrdered)

\* The part of C22 the code keeps: the same statement while no name
\* requested is the name of a property every object inherits.
OwnNamesOneFlavor ==
    NamesOrdered \cap ObjectPrototype = {} => C22_OneFlavorPerName

\* A flavor requested a second time after another one was made.
OwnNamesWitness ==
    /\ Len(orders) = 3
    /\ orders[1].name = "Frappe"
    /\ orders[2].name = "Xpresso"
    /\ orders[3] = [name |-> "Frappe", flavor |-> orders[1].flavor]
    /\ getTotalCoffeeFlavorsMade(length) = 2

\* The 15 orders of testFlyweight leave three CoffeeFlavor objects made.
TestFlyweightMakesThree ==
    getTotalCoffeeFlavorsMade(
        takeOrders(NewCoffeeFlavorFactory, TestFlyweightOrders).length) = 3

\* The first createBook call made with the ISBN of call k.
FirstWithISBN(k) ==
    CHOOSE j \in 1 .. k :
        /\ bookCalls[j].args.ISBN = bookCalls[k].args.ISBN
        /\ \A h \in 1 .. (j - 1) :
               bookCalls[h].args.ISBN # bookCalls[k].args.ISBN

LastSubjectCall == subjectCall[1]

\* The observers in list.
Registered(list) == {list[k] : k \in 1 .. Len(list)}

\* C25: two Subject instances own independent observer lists: addObserver,
\* removeObserver and notify on one Subject never change the other's count
\* or contents and never invoke an observer registered only with the other.
C25_SubjectsIndependent ==
    subjectCall # <<>>
        => \A other \in Subjects \ {LastSubjectCall.subject} :
              /\ ListOf(other) = LastSubjectCall.before[other]
              /\ count(ListOf(other)) = count(LastSubjectCall.before[other])
              /\ \A k \in 1 .. Len(LastSubjectCall.invoked) :
                     LastSubjectCall.invoked[k][1]
                         \in Registered(LastSubjectCall.before[other])
                     => LastSubjectCall.invoked[k][1]
                            \in Registered(
                                LastSubjectCall.before[LastSubjectCall.subject])

\* notify on the first Subject, which holds A, while the second holds B
\* only: A alone is invoked and the second list is as it was.
C25_Witness ==
    /\ subjectCall # <<>>
    /\ LastSubjectCall.subject = 1
    /\ LastSubjectCall.name = "notify"
    /\ LastSubjectCall.before = <<(<<"A">>), (<<"B">>)>>
    /\ LastSubjectCall.invoked = <<(<<"A", 5>>)>>
    /\ ListOf(2) = <<"B">>

====
